---- MODULE Spec2Model ----
(***************************************************************************)
(* A model of rulefit.py: the RuleFit class, a wrapper that drives the R   *)
(* rulefit library through rpy2.  The state is the R global environment    *)
(* (one per process, shared by every RuleFit instance), the attributes of  *)
(* the RuleFit instances A and B, and a record of the last method call: the*)
(* arguments passed, the R routines it invoked and with what, what it      *)
(* returned and what it raised.  The R globals yp and xval, which          *)
(* predict and xval assign and nothing reads, are left out.                *)
(*                                                                         *)
(* Python values are tagged records: None, an int, a str.  A pandas frame  *)
(* is its column names and its number of rows.  A numpy weight vector is a *)
(* bag (weight value -> number of observations carrying it): the code only *)
(* sums over it.  Real numbers are exact rationals [num, den]; the square  *)
(* root is taken to 1/SqrtPrec.                                            *)
(***************************************************************************)
EXTENDS Integers, Sequences, FiniteSets, TLC

VARIABLES
    globalenv,             \* robjects.globalenv: the R global environment
    constructed,           \* instance -> __init__ returned an object
    logger,                \* instance -> self.logger is set
    data,                  \* instance -> self._data
    variable_importances,  \* instance -> self._variable_importances
    xval_results,          \* instance -> self._xval_results
    interaction_effects,   \* instance -> self._interaction_effects
    last,                  \* the last method call and its outcome
    calls                  \* the R routines that call invoked, in order

vars == <<globalenv, constructed, logger, data, variable_importances,
          xval_results, interaction_effects, last, calls>>

props == <<data, variable_importances, xval_results, interaction_effects>>

(***************************************************************************)
(* Bounds of the model.                                                    *)
(***************************************************************************)
MaxNrow == 40       \* rows of the largest frame
MaxWtCount == 3000  \* observations of the largest caller-supplied wt
MaxVars == 2        \* length of the longest vars list
MaxIdx == 1         \* largest 0-based column index a caller passes
SqrtPrec == 10      \* np.sqrt is taken to 1/SqrtPrec
MaxXvalLen == 5     \* length of the longest list rfxval returns
MaxNulls == 3       \* NULL (or non-NULL) arguments in a call of fit

Instances == {"A", "B"}

(***************************************************************************)
(* Python and R values.                                                    *)
(***************************************************************************)
None == [t |-> "None"]
Unset == [t |-> "unset"]          \* an attribute that was never assigned
NULL == [t |-> "NULL"]            \* rinterface.NULL
PyInt(n) == [t |-> "int", v |-> n]
PyStr(s) == [t |-> "str", s |-> s]
PyBool(b) == [t |-> "bool", b |-> b]
Rat(n, d) == [num |-> n, den |-> d]

Min(a, b) == IF a <= b THEN a ELSE b
Max(a, b) == IF a >= b THEN a ELSE b

RECURSIVE SumOver(_, _)
SumOver(f, S) ==
    IF S = {} THEN 0
    ELSE LET e == CHOOSE e \in S : TRUE IN f[e] + SumOver(f, S \ {e})

\* np.sum(wt): the sum of a weight vector
np_sum(wt) == SumOver([v \in DOMAIN wt |-> v * wt[v]], DOMAIN wt)

\* wt ** 2: the element-wise square
np_square(wt) ==
    [w \in {v * v : v \in DOMAIN wt} |->
        SumOver(wt, {v \in DOMAIN wt : v * v = w})]

\* np.arange(1, n + 1)
np_arange1(n) == [v \in 1..n |-> 1]

RECURSIVE ISqrtFrom(_, _, _)
ISqrtFrom(x, lo, hi) ==
    IF lo >= hi THEN lo
    ELSE LET mid == (lo + hi + 1) \div 2
         IN IF mid * mid <= x THEN ISqrtFrom(x, mid, hi)
            ELSE ISqrtFrom(x, lo, mid - 1)

ISqrt(x) == ISqrtFrom(x, 0, Min(x, 46340))

\* np.sqrt of a positive rational, to 1/SqrtPrec
np_sqrt(r) == Rat(ISqrt((r.num * SqrtPrec * SqrtPrec) \div r.den), SqrtPrec)

RatLe(a, b) == a.num * b.den <= b.num * a.den
RatMin(a, b) == IF RatLe(a, b) THEN a ELSE b
RatMax(a, b) == IF RatLe(b, a) THEN a ELSE b

\* Python 3 round() of a non-negative rational: to nearest, ties to even
round(r) ==
    LET f == r.num \div r.den
        m == r.num % r.den
    IN  IF 2 * m < r.den THEN f
        ELSE IF 2 * m > r.den THEN f + 1
        ELSE IF f % 2 = 0 THEN f ELSE f + 1

(***************************************************************************)
(* The inputs the callers of the model pass.                               *)
(***************************************************************************)
Frame(cols, n) == [t |-> "frame", columns |-> cols, nrow |-> n]
Array(w) == [t |-> "array", a |-> w]
Float(r) == [t |-> "float", r |-> r]
Vec == [t |-> "vector"]            \* a response vector
Default == [t |-> "default"]       \* an argument left at its keyword default

ColumnSets == {<<"a", "b">>, <<"c", "a", "b">>}

\* what the lifecycle of one instance fits
Frames == {Frame(c, 3) : c \in ColumnSets}

Weights ==
    {Array(w) : w \in {[v \in {1} |-> 1],
                       [v \in {1, 3} |-> IF v = 1 THEN 2 ELSE 1],
                       [v \in {1, 2} |-> IF v = 1 THEN 100 ELSE 300],
                       [v \in {1} |-> 416],
                       [v \in {1} |-> 800],
                       [v \in {1} |-> 2080],
                       [v \in {1} |-> MaxWtCount]}}

\* varimp's report: importances (descending) and the 1-based variable indices
VarImpReports(x) ==
    LET n == Len(x.columns)
    IN  {[imp |-> [k \in 1..n |-> 100 - 10 * (k - 1)], var |-> [k \in 1..n |-> k]],
         [imp |-> [k \in 1..n |-> 100 - 10 * (k - 1)],
          var |-> [k \in 1..n |-> n + 1 - k]]}

(***************************************************************************)
(* The record of a method call.                                            *)
(***************************************************************************)
Call(op, self, args, raised, returned) ==
    [op |-> op, self |-> self, args |-> args, raised |-> raised,
     returned |-> returned]

\* an R routine invoked with args, the R globals it found, and whether it
\* returned (ok) or raised RRuntimeError
RCall(fn, args, env, ok) ==
    [fn |-> fn, args |-> args, fit |-> env.fit, null |-> env.null_models,
     ok |-> ok]

Init ==
    /\ globalenv = [platform |-> Unset, rfhome |-> Unset, loaded |-> FALSE,
                    fit |-> Unset, stats |-> Unset, var_imp |-> Unset,
                    null_models |-> Unset]
    /\ constructed = [i \in Instances |-> FALSE]
    /\ logger = [i \in Instances |-> FALSE]
    /\ data = [i \in Instances |-> Unset]
    /\ variable_importances = [i \in Instances |-> Unset]
    /\ xval_results = [i \in Instances |-> Unset]
    /\ interaction_effects = [i \in Instances |-> Unset]
    /\ last = Call("none", "none", <<>>, "none", None)
    /\ calls = <<>>

(***************************************************************************)
(* RuleFit.__init__ and _initialize_r_instance.  fail names the R step     *)
(* that raises RRuntimeError, "none" when none does.  The except clause    *)
(* logs through self.logger, which __init__ assigns only after             *)
(* _initialize_r_instance has returned.                                    *)
(***************************************************************************)
InitFails == {"none", "importr", "source"}

Construct(i, fail) ==
    /\ ~constructed[i]
    /\ LET env1 == IF fail = "importr" THEN globalenv
                   ELSE [globalenv EXCEPT !.platform = PyStr("linux"),
                                          !.rfhome = PyStr("rfhome")]
           env2 == IF fail = "none" THEN [env1 EXCEPT !.loaded = TRUE] ELSE env1
           done == IF fail = "importr"
                   THEN <<RCall("importr", <<>>, globalenv, FALSE)>>
                   ELSE <<RCall("importr", <<>>, globalenv, TRUE),
                          RCall("source", <<>>, globalenv, fail = "none")>>
           \* the except clause: self.logger.error(...)
           handled == fail # "none" /\ logger[i]
           escaped == fail # "none" /\ ~logger[i]
       IN  /\ globalenv' = env2
           /\ calls' = done
           /\ IF escaped
              THEN /\ last' = Call("__init__", i, <<>>, "AttributeError", None)
                   /\ UNCHANGED <<constructed, logger>>
              ELSE /\ last' = Call("__init__", i, <<>>,
                                   IF handled THEN "logged" ELSE "none", None)
                   /\ constructed' = [constructed EXCEPT ![i] = TRUE]
                   /\ logger' = [logger EXCEPT ![i] = TRUE]
    /\ UNCHANGED props

(***************************************************************************)
(* fit: the defaults of the unset hyperparameters (lines 501-512).         *)
(***************************************************************************)
\* neff = np.sum(wt) ** 2 / np.sum(wt ** 2)
neff(wt) == Rat(np_sum(wt) * np_sum(wt), np_sum(np_square(wt)))

\* TestRepsDefault without the cap min(20, .)
TestRepsUncapped(wt) ==
    LET n == neff(wt)
        v == Rat(5200 * n.den - 2 * n.num, n.num)
    IN  round(RatMax(Rat(0, 1), v))

\* round(min(20, np.max([0.0, 5200 / neff - 2])))
TestRepsDefault(wt) ==
    LET n == neff(wt)
        v == Rat(5200 * n.den - 2 * n.num, n.num)
    IN  round(RatMin(Rat(20, 1), RatMax(Rat(0, 1), v)))

\* min(1, (11 * np.sqrt(neff) + 1) / neff)
SampFractDefault(wt) ==
    LET n == neff(wt)
        r == np_sqrt(n)
        v == Rat((11 * r.num + r.den) * n.den, r.den * n.num)
    IN  RatMin(Rat(1, 1), v)

(***************************************************************************)
(* fit: the R function of lines 516-548.                                   *)
(***************************************************************************)
Arg(name, value) == [name |-> name, value |-> value]

is_null(v) == v.t = "NULL"

RemoveAt(s, k) == [j \in 1..(Len(s) - 1) |-> IF j < k THEN s[j] ELSE s[j + 1]]

\* for (i in 1:length(args)) { if (is.null(args[[count]])) args[[count]] <- NULL
\*                             else count = count + 1 }
\* left is the number of iterations still to run; reading args[[count]] past
\* the end of the list is R's "subscript out of bounds"
RECURSIVE FilterLoop(_, _, _)
FilterLoop(args, count, left) ==
    IF left = 0 THEN [args |-> args, err |-> FALSE]
    ELSE IF count > Len(args) THEN [args |-> args, err |-> TRUE]
    ELSE IF is_null(args[count].value)
         THEN FilterLoop(RemoveAt(args, count), count, left - 1)
         ELSE FilterLoop(args, count + 1, left - 1)

\* FilterLoop advancing count in every iteration, as the loop variable i
RECURSIVE FilterLoopAdvancing(_, _, _)
FilterLoopAdvancing(args, count, left) ==
    IF left = 0 THEN [args |-> args, err |-> FALSE]
    ELSE IF count > Len(args) THEN [args |-> args, err |-> TRUE]
    ELSE IF is_null(args[count].value)
         THEN FilterLoopAdvancing(RemoveAt(args, count), count + 1, left - 1)
         ELSE FilterLoopAdvancing(args, count + 1, left - 1)

\* FilterNull indexing the list by i instead of count
FilterNullAdvancing(args) == FilterLoopAdvancing(args, 1, Len(args))

FilterNull(args) == FilterLoop(args, 1, Len(args))

\* list(x=x, y=y, wt=wt, cat.vars=cat_vars, ...)
RulefitArgs(x, y, wt, cat_vars, not_used, test_reps, samp_fract) ==
    <<Arg("x", x), Arg("y", y), Arg("wt", wt), Arg("cat.vars", cat_vars),
      Arg("not.used", not_used), Arg("xmiss", Default), Arg("rfmode", Default),
      Arg("sparse", Default), Arg("test.reps", test_reps),
      Arg("test.fract", Default), Arg("mod.sel", Default),
      Arg("model.type", Default), Arg("tree.size", Default),
      Arg("max.rules", Default), Arg("max.trms", Default),
      Arg("costs", Default), Arg("trim.qntl", Default),
      Arg("samp.fract", samp_fract), Arg("inter.supp", Default),
      Arg("memory.par", Default), Arg("conv.thr", Default),
      Arg("quiet", Default), Arg("tree.store", Default),
      Arg("cat.store", Default)>>

(***************************************************************************)
(* _load_r_variable_importance_objects and _update_model_properties.       *)
(***************************************************************************)
\* seq[p] in Python: 0-based, a negative p counts from the end
PyIndex(seq, p) == IF p >= 0 THEN seq[p + 1] ELSE seq[Len(seq) + p + 1]

\* VarName looking the name up in the x of the previous fit
VarNameStale(columns, var) ==
    LET old == IF data["A"] = Unset THEN columns ELSE data["A"].x.columns
    IN  IF var <= Len(old) THEN PyIndex(old, var - 1) ELSE "IndexError"

\* the name of the column that R's 1-based variable index var stands for
VarName(columns, var) == PyIndex(columns, var - 1)

load_r_variable_importance_objects(env, d) ==
    [k \in 1..Len(env.var_imp.var) |->
        [var_name |-> VarName(d.x.columns, env.var_imp.var[k]),
         variable_importance |-> env.var_imp.imp[k]]]

\* the value of self._data after _update_model_properties(x, y)
UpdatedData(x, y) == [t |-> "dict", x |-> x, y |-> y]

\* do.call(rulefit, args): the record of that call of rulefit, with list,
\* the argument list as built, before the loop
DoCall(args, list, env, ok) ==
    [fn |-> "rulefit", args |-> args, fit |-> env.fit,
     null |-> env.null_models, ok |-> ok, list |-> list]

(***************************************************************************)
(* fit.  fail names the R routine that raises RRuntimeError ("none": no    *)
(* routine does), vi is what varimp reports for the model trained.         *)
(***************************************************************************)
FitFails == {"none", "rulefit", "runstats", "varimp"}

\* the model rulefit trains: by whom and on what
TrainedModel(i, x) == [t |-> "model", by |-> i, x |-> x.columns]

\* the arguments the R function receives (lines 499-512)
Forwarded(x, y, wt, cat_vars, not_used, test_reps, samp_fract) ==
    LET y1 == IF y.t = "int" THEN PyInt(y.v + 1) ELSE y
        wt1 == IF wt = None THEN Array(np_arange1(x.nrow)) ELSE wt
        tr1 == IF test_reps = None THEN PyInt(TestRepsDefault(wt1.a))
               ELSE test_reps
        sf1 == IF samp_fract = None THEN Float(SampFractDefault(wt1.a))
               ELSE samp_fract
        cv1 == IF cat_vars = None THEN NULL ELSE cat_vars
        nu1 == IF not_used = None THEN NULL ELSE not_used
    IN  [y |-> y1, list |-> RulefitArgs(x, y1, wt1, cv1, nu1, tr1, sf1)]

\* fit from line 514 on, given what lines 499-512 made of the arguments:
\* fw.y is y after line 500, fw.list the list the R function builds of its
\* 24 arguments; pyargs is what the caller passed
FitForwarded(i, x, pyargs, fw, fail, vi) ==
    /\ constructed[i]
    /\ \E f \in {fw} : \E kept \in {FilterNull(f.list)} :
       LET model == TrainedModel(i, x)
           stop == IF kept.err THEN "filter" ELSE fail
           env1 == IF stop \in {"filter", "rulefit"} THEN globalenv
                   ELSE [globalenv EXCEPT !.fit = model]
           env2 == IF stop \in {"filter", "rulefit", "runstats"} THEN env1
                   ELSE [env1 EXCEPT !.stats = [t |-> "stats", of |-> model]]
           env3 == IF stop # "none" THEN env2
                   ELSE [env2 EXCEPT !.var_imp = vi]
           c1 == IF stop = "filter" THEN <<>>
                 ELSE <<DoCall(kept.args, f.list, globalenv, stop # "rulefit")>>
           c2 == IF stop \in {"filter", "rulefit"} THEN c1
                 ELSE Append(c1, RCall("runstats", <<>>, env1, stop # "runstats"))
           c3 == IF stop \in {"filter", "rulefit", "runstats"} THEN c2
                 ELSE Append(c2, RCall("varimp", <<>>, env2, stop # "varimp"))
           d == UpdatedData(x, f.y)
       IN  /\ globalenv' = env3
           /\ calls' = c3
           /\ IF stop # "none"
              THEN /\ last' = Call("fit", i, pyargs, "RRuntimeError", None)
                   /\ UNCHANGED <<data, variable_importances>>
              ELSE /\ data' = [data EXCEPT ![i] = d]
                   /\ variable_importances' =
                          [variable_importances EXCEPT
                              ![i] = load_r_variable_importance_objects(env3, d)]
                   /\ last' = Call("fit", i, pyargs, "none",
                                   [t |-> "fit_stats", of |-> env3.stats.of])
    /\ UNCHANGED <<constructed, logger, xval_results, interaction_effects>>

\* fit with the other seventeen hyperparameters left at their defaults
Fit(i, x, y, wt, cat_vars, not_used, test_reps, samp_fract, fail, vi) ==
    /\ constructed[i]
    /\ \E fw \in {Forwarded(x, y, wt, cat_vars, not_used, test_reps,
                            samp_fract)} :
       LET pyargs == [x |-> x, y |-> y, wt |-> wt, cat_vars |-> cat_vars,
                      not_used |-> not_used, test_reps |-> test_reps,
                      samp_fract |-> samp_fract]
       IN  FitForwarded(i, x, pyargs, fw, fail, vi)

(***************************************************************************)
(* predict.                                                                *)
(***************************************************************************)
\* PredictModel with one model kept per instance
PredictOwnModel(i, env) ==
    IF data[i] = Unset THEN env.fit
    ELSE [t |-> "model", by |-> i, x |-> data[i].x.columns]

\* the model rfpred scores with: the R global fit
PredictModel(i, env) == env.fit

Predict(i, x, fail) ==
    /\ constructed[i]
    /\ calls' = <<[RCall("rfpred", <<x>>, globalenv, ~fail)
                      EXCEPT !.fit = PredictModel(i, globalenv)]>>
    /\ last' = IF fail THEN Call("predict", i, <<x>>, "RRuntimeError", None)
               ELSE Call("predict", i, <<x>>, "none",
                         [t |-> "ndarray", of |-> PredictModel(i, globalenv)])
    /\ UNCHANGED <<globalenv, constructed, logger, props>>

(***************************************************************************)
(* xval.  n is the length of the list rfxval returns: 5 for a              *)
(* classification model, 3 for a regression model; the list always holds   *)
(* the three entries the regression branch reads.                          *)
(***************************************************************************)
XvalLengths == 3..MaxXvalLen

ClassificationKeys == {"probas", "auc", "avg_err", "pos_err", "neg_err"}
RegressionKeys == {"pred", "avg_abs_err", "rms"}

XvalDict(n) ==
    IF n = 5
    THEN [probas |-> "xval[0]", auc |-> "1 - xval[1][0]", avg_err |-> "xval[2][0]",
          pos_err |-> "xval[3][0]", neg_err |-> "xval[4][0]"]
    ELSE [pred |-> "xval[0]", avg_abs_err |-> "xval[1][0]", rms |-> "xval[2][0]"]

\* XvalResults updating the dict in place instead of replacing it
XvalResultsUpdated(old, n) ==
    IF old = Unset THEN XvalDict(n)
    ELSE [k \in DOMAIN old \cup DOMAIN XvalDict(n) |->
             IF k \in DOMAIN XvalDict(n) THEN XvalDict(n)[k] ELSE old[k]]

\* the dict xval assigns to self._xval_results (old: the one it replaces)
XvalResults(old, n) == XvalDict(n)

\* Xval assigning self._xval_results before rfxval is known to have returned
XvalAssignsFirst(i, n, fail) ==
    /\ constructed[i]
    /\ calls' = <<RCall("rfxval", <<>>, globalenv, ~fail)>>
    /\ xval_results' = [xval_results EXCEPT ![i] = XvalResults(xval_results[i], n)]
    /\ last' = IF fail THEN Call("xval", i, <<>>, "RRuntimeError", None)
               ELSE Call("xval", i, <<PyInt(n)>>, "none", None)
    /\ UNCHANGED <<globalenv, constructed, logger, data, variable_importances,
                   interaction_effects>>

Xval(i, n, fail) ==
    /\ constructed[i]
    /\ calls' = <<RCall("rfxval", <<>>, globalenv, ~fail)>>
    /\ IF fail
       THEN /\ last' = Call("xval", i, <<>>, "RRuntimeError", None)
            /\ UNCHANGED xval_results
       ELSE /\ xval_results' =
                   [xval_results EXCEPT ![i] = XvalResults(xval_results[i], n)]
            /\ last' = Call("xval", i, <<PyInt(n)>>, "none", None)
    /\ UNCHANGED <<globalenv, constructed, logger, data, variable_importances,
                   interaction_effects>>

(***************************************************************************)
(* Variable interactions.                                                  *)
(***************************************************************************)
\* exists("null.models")
exists_null_models(env) == env.null_models # Unset

\* _generate_interaction_null_models: null.models <<- intnull(ntimes=n, quiet)
generate_interaction_null_models(env, n) ==
    [env EXCEPT !.null_models =
        [t |-> "null.models", ntimes |-> n, fit |-> env.fit]]

\* whether generate_intr_effects runs _generate_interaction_null_models
OmnibusGenerates(env) == TRUE

\* LazyGenerates without the check: never, and always
LazyNever(env) == FALSE
LazyAlways(env) == TRUE

\* whether two_var_intr_effects and three_var_intr_effects run it
LazyGenerates(env) == ~exists_null_models(env)

\* pd.DataFrame({'interact_str': ..., 'exp_null_int': ..., 'std_null_int': ...},
\*              index=index)
IntrTable(index) ==
    [t |-> "frame", index |-> index,
     columns |-> <<"interact_str", "exp_null_int", "std_null_int">>]

\* what generate_intr_effects returns once it has built the table
GenerateReturns(table) == None

\* gg(title='Interaction Effects'): gg is the module ggplot, and calling a
\* module raises TypeError
PlotRaises(plot) == plot

IntrFails == {"none", "intnull", "interact"}

GenerateIntrEffects(i, n, plot, fail) ==
    /\ constructed[i]
    /\ LET gen == OmnibusGenerates(globalenv)
           genfail == gen /\ fail = "intnull"
           env1 == IF gen /\ ~genfail
                   THEN generate_interaction_null_models(globalenv, n)
                   ELSE globalenv
           c1 == IF gen
                 THEN <<RCall("intnull", <<PyInt(n)>>, globalenv, ~genfail)>>
                 ELSE <<>>
           nodata == data[i] = Unset
           ncols == Len(data[i].x.columns)
           \* if(exists("null.models")) interact(c(1:ncols), null.models, ...)
           \* else interact(c(1:ncols), ...)
           rargs == IF exists_null_models(env1)
                    THEN <<PyInt(ncols), env1.null_models>>
                    ELSE <<PyInt(ncols)>>
           table == IntrTable(data[i].x.columns)
           pyargs == <<PyInt(n), PyBool(plot)>>
       IN  /\ globalenv' = env1
           /\ IF genfail
              THEN /\ calls' = c1
                   /\ last' = Call("generate_intr_effects", i, pyargs,
                                   "RRuntimeError", None)
                   /\ UNCHANGED interaction_effects
              ELSE IF nodata
              THEN /\ calls' = c1
                   /\ last' = Call("generate_intr_effects", i, pyargs,
                                   "AttributeError", None)
                   /\ UNCHANGED interaction_effects
              ELSE IF fail = "interact"
              THEN /\ calls' = Append(c1, RCall("interact", rargs, env1, FALSE))
                   /\ last' = Call("generate_intr_effects", i, pyargs,
                                   "RRuntimeError", None)
                   /\ UNCHANGED interaction_effects
              ELSE /\ calls' = Append(c1, RCall("interact", rargs, env1, TRUE))
                   /\ interaction_effects' =
                          [interaction_effects EXCEPT ![i] = table]
                   /\ last' = IF PlotRaises(plot)
                              THEN Call("generate_intr_effects", i, pyargs,
                                        "TypeError", None)
                              ELSE Call("generate_intr_effects", i, pyargs,
                                        "none", GenerateReturns(table))
    /\ UNCHANGED <<constructed, logger, data, variable_importances,
                   xval_results>>

\* var if type(var) is str else var + 1
ToRIndex(var) == IF var.t = "str" THEN var ELSE PyInt(var.v + 1)

\* np.array(list): one dtype for the whole array; a list holding a str
\* becomes an array of str, its ints turned into their decimal strings
np_array(list) ==
    IF \E k \in 1..Len(list) : list[k].t = "str"
    THEN [k \in 1..Len(list) |->
             IF list[k].t = "str" THEN list[k] ELSE PyStr(ToString(list[k].v))]
    ELSE list

\* robjects.Vector(np.array(vars))
RVector(list) == [t |-> "Vector", v |-> np_array(list)]

\* the part two_var_intr_effects and three_var_intr_effects share: the
\* check for null models, the conversion of the identifiers, the R call.
\* targets holds the one or two target identifiers.  With plot set they
\* print a bar plot as well, which changes nothing here.
VarIntrEffects(op, fn, i, targets, vs, fail) ==
    /\ constructed[i]
    /\ LET gen == LazyGenerates(globalenv)
           genfail == gen /\ fail = "intnull"
           env1 == IF gen /\ ~genfail
                   THEN generate_interaction_null_models(globalenv, 10)
                   ELSE globalenv
           c0 == <<RCall("exists", <<>>, globalenv, TRUE)>>
           c1 == IF gen
                 THEN Append(c0, RCall("intnull", <<PyInt(10)>>, globalenv,
                                       ~genfail))
                 ELSE c0
           targets1 == [k \in 1..Len(targets) |-> ToRIndex(targets[k])]
           vars1 == [k \in 1..Len(vs) |-> ToRIndex(vs[k])]
           rargs == Append(targets1, RVector(vars1))
           pyargs == Append(targets, vs)
       IN  /\ gen => logger[i]
           /\ globalenv' = env1
           /\ IF genfail
              THEN /\ calls' = c1
                   /\ last' = Call(op, i, pyargs, "RRuntimeError", None)
              ELSE IF fail = "interact"
              THEN /\ calls' = Append(c1, RCall(fn, rargs, env1, FALSE))
                   /\ last' = Call(op, i, pyargs, "RRuntimeError", None)
              ELSE /\ calls' = Append(c1, RCall(fn, rargs, env1, TRUE))
                   /\ last' = Call(op, i, pyargs, "none", IntrTable(vars1))
    /\ UNCHANGED <<constructed, logger, props>>

TwoVarIntrEffects(i, target, vs, fail) ==
    VarIntrEffects("two_var_intr_effects", "twovarint", i, <<target>>, vs, fail)

ThreeVarIntrEffects(i, tvar1, tvar2, vs, fail) ==
    VarIntrEffects("three_var_intr_effects", "threevarint", i,
                   <<tvar1, tvar2>>, vs, fail)

(***************************************************************************)
(* Partial dependencies.                                                   *)
(***************************************************************************)
\* any([type(var) == int for var in vars])
any_int(vs) == \E k \in 1..Len(vs) : vs[k].t = "int"

\* [var + 1 for var in vars] raises TypeError at the first str: str + int
add_one_raises(vs) == \E k \in 1..Len(vs) : vs[k].t = "str"

\* single_partial_dependency(vars, nav): the conversion of the identifiers
\* and the call of singleplot, which fails (RRuntimeError) when fail is set
SinglePartialDependency(i, vs, fail) ==
    /\ constructed[i]
    /\ LET conv == any_int(vs)
           vars1 == IF conv THEN [k \in 1..Len(vs) |-> PyInt(vs[k].v + 1)]
                    ELSE vs
       IN  IF conv /\ add_one_raises(vs)
           THEN /\ calls' = <<>>
                /\ last' = Call("single_partial_dependency", i, <<vs>>,
                                "TypeError", None)
           ELSE /\ calls' = <<RCall("singleplot", <<RVector(vars1)>>,
                                    globalenv, ~fail)>>
                /\ last' = Call("single_partial_dependency", i, <<vs>>,
                                IF fail THEN "RRuntimeError" ELSE "none", None)
    /\ UNCHANGED <<globalenv, constructed, logger, props>>

(***************************************************************************)
(* The lifecycle of one instance: every operation, each R routine failing  *)
(* or not.                                                                 *)
(***************************************************************************)
TheFrame == Frame(<<"a", "b">>, 3)

\* the identifiers its interaction and partial dependency calls pass
TheTarget == PyInt(0)
TheName == PyStr("b")
TheVars == <<PyInt(1)>>

DoConstruct == \E fail \in InitFails : Construct("A", fail)

DoFit ==
    \E x \in Frames, fail \in FitFails : \E vi \in VarImpReports(x) :
        Fit("A", x, Vec, None, None, None, None, None, fail, vi)

DoPredict == \E x \in Frames, fail \in BOOLEAN : Predict("A", x, fail)

DoXval == \E n \in XvalLengths, fail \in BOOLEAN : Xval("A", n, fail)

DoGenerateIntrEffects ==
    \E plot \in BOOLEAN, fail \in IntrFails :
        GenerateIntrEffects("A", 10, plot, fail)

DoTwoVarIntrEffects ==
    \E fail \in IntrFails : TwoVarIntrEffects("A", TheTarget, TheVars, fail)

DoThreeVarIntrEffects ==
    \E fail \in IntrFails :
        ThreeVarIntrEffects("A", TheTarget, TheName, TheVars, fail)

DoSinglePartialDependency ==
    \E fail \in BOOLEAN : SinglePartialDependency("A", <<TheTarget>>, fail)

Next ==
    \/ DoConstruct
    \/ DoFit
    \/ DoPredict
    \/ DoXval
    \/ DoGenerateIntrEffects
    \/ DoTwoVarIntrEffects
    \/ DoThreeVarIntrEffects
    \/ DoSinglePartialDependency

Spec == Init /\ [][Next]_vars

(***************************************************************************)
(* The arguments of fit: one instance, fit called with frames of several   *)
(* shapes, with and without weights and hyperparameters.                   *)
(***************************************************************************)
ListArg == [t |-> "list"]       \* a list of column labels

FitCase(x, y, wt, cat_vars, not_used, test_reps, samp_fract) ==
    [x |-> x, y |-> y, wt |-> wt, cat_vars |-> cat_vars, not_used |-> not_used,
     test_reps |-> test_reps, samp_fract |-> samp_fract]

FitCases ==
    {FitCase(Frame(<<"a", "b">>, n), Vec, None, None, None, tr, sf) :
        n \in {1, 2, MaxNrow}, tr \in {None, PyInt(5)},
        sf \in {None, Float(Rat(1, 2))}}
    \cup
    {FitCase(TheFrame, Vec, w, None, None, tr, sf) :
        w \in Weights, tr \in {None, PyInt(5)}, sf \in {None, Float(Rat(1, 2))}}
    \cup
    {FitCase(Frame(c, 3), y, None, cv, nu, None, None) :
        c \in ColumnSets, y \in {Vec, PyInt(0), PyInt(1)},
        cv \in {None, ListArg}, nu \in {None, ListArg}}

FitAny ==
    \E c \in FitCases : \E vi \in VarImpReports(c.x) :
        Fit("A", c.x, c.y, c.wt, c.cat_vars, c.not_used, c.test_reps,
            c.samp_fract, "none", vi)

FitFailing ==
    \E fail \in FitFails \ {"none"}, vi \in VarImpReports(TheFrame) :
        Fit("A", TheFrame, Vec, None, None, None, None, None, fail, vi)

NextFit ==
    \/ DoConstruct
    \/ FitAny
    \/ FitFailing

SpecFit == Init /\ [][NextFit]_vars

(***************************************************************************)
(* The variable identifiers: one instance, the interaction operations and  *)
(* single_partial_dependency called with column numbers, column names and  *)
(* lists mixing both.                                                      *)
(***************************************************************************)
Idents == {PyInt(0), PyInt(MaxIdx), PyStr("a")}

IdentLists == UNION {[1..n -> Idents] : n \in 1..MaxVars}

TwoVarAny ==
    \E target \in Idents, vs \in IdentLists :
        TwoVarIntrEffects("A", target, vs, "none")

ThreeVarAny ==
    \E tvar1 \in Idents, tvar2 \in Idents, vs \in IdentLists :
        ThreeVarIntrEffects("A", tvar1, tvar2, vs, "none")

SingleAny ==
    \E vs \in IdentLists : SinglePartialDependency("A", vs, FALSE)

IdxFit ==
    \E vi \in VarImpReports(TheFrame) :
        Fit("A", TheFrame, Vec, None, None, None, None, None, "none", vi)

NextIdx ==
    \/ DoConstruct
    \/ IdxFit
    \/ TwoVarAny
    \/ ThreeVarAny
    \/ SingleAny

SpecIdx == Init /\ [][NextIdx]_vars

(***************************************************************************)
(* Two instances in one process, sharing the R global environment.         *)
(***************************************************************************)
SharedConstruct == \E i \in Instances, fail \in InitFails : Construct(i, fail)

SharedFit ==
    \E i \in Instances, fail \in FitFails, vi \in VarImpReports(TheFrame) :
        Fit(i, TheFrame, Vec, None, None, None, None, None, fail, vi)

SharedPredict == \E i \in Instances, fail \in BOOLEAN : Predict(i, TheFrame, fail)

SharedXval == \E i \in Instances, fail \in BOOLEAN : Xval(i, 3, fail)

SharedGenerateIntrEffects ==
    \E i \in Instances : GenerateIntrEffects(i, 10, FALSE, "none")

SharedTwoVarIntrEffects ==
    \E i \in Instances : TwoVarIntrEffects(i, TheTarget, TheVars, "none")

SharedThreeVarIntrEffects ==
    \E i \in Instances :
        ThreeVarIntrEffects(i, TheTarget, TheName, TheVars, "none")

NextShared ==
    \/ SharedConstruct
    \/ SharedFit
    \/ SharedPredict
    \/ SharedXval
    \/ SharedGenerateIntrEffects
    \/ SharedTwoVarIntrEffects
    \/ SharedThreeVarIntrEffects

SpecShared == Init /\ [][NextShared]_vars

(***************************************************************************)
(* The R argument list: one instance, its first fit called with            *)
(* rinterface.NULL for some of the 24 arguments: for at most MaxNulls of   *)
(* them, for all but at most MaxNulls of them, or for a run of consecutive *)
(* ones.                                                                   *)
(***************************************************************************)
\* the parameters of fit (lines 406-411), in the order of the R function's
Params ==
    <<"x", "y", "wt", "cat_vars", "not_used", "xmiss", "rfmode", "sparse",
      "test_reps", "test_fract", "mod_sel", "model_type", "tree_size",
      "max_rules", "max_trms", "costs", "trim_qntl", "samp_fract",
      "inter_supp", "memory_par", "conv_thr", "quiet", "tree_store",
      "cat_store">>

ParamSet == {Params[k] : k \in 1..Len(Params)}

\* the sets of at most n parameters
RECURSIVE SetsUpTo(_)
SetsUpTo(n) ==
    IF n = 0 THEN {{}}
    ELSE LET prev == SetsUpTo(n - 1)
         IN  prev \cup {S \cup {p} : S \in prev, p \in ParamSet}

NullSets ==
    LET few == SetsUpTo(MaxNulls)
    IN  few \cup {ParamSet \ S : S \in few}
            \cup {{Params[k] : k \in a..b} : a, b \in 1..Len(Params)}

\* the argument passed for the parameter p: rinterface.NULL or a value
Passed(S, p, value) == IF p \in S THEN NULL ELSE value

\* the R list when the caller passes NULL for a parameter that fit hands on
\* untouched (lines 551-560)
WithNull(list, S) ==
    [k \in 1..Len(list) |->
        IF Params[k] \in S THEN Arg(list[k].name, NULL) ELSE list[k]]

\* rulefit has no default for x or y: called without one of them it raises
FitNull ==
    /\ data["A"] = Unset /\ last.op # "fit"
    /\ \E S \in NullSets, vi \in VarImpReports(TheFrame) :
       LET x == Passed(S, "x", TheFrame)
           y == Passed(S, "y", Vec)
           wt == Passed(S, "wt", Array(np_arange1(3)))
           cat_vars == Passed(S, "cat_vars", ListArg)
           not_used == Passed(S, "not_used", ListArg)
           test_reps == Passed(S, "test_reps", PyInt(5))
           samp_fract == Passed(S, "samp_fract", Float(Rat(1, 2)))
           fw == Forwarded(x, y, wt, cat_vars, not_used, test_reps, samp_fract)
           list == WithNull(fw.list, S)
           pyargs == [p \in ParamSet |->
                         list[CHOOSE k \in 1..Len(Params) : Params[k] = p].value]
           fail == IF {"x", "y"} \cap S = {} THEN "none" ELSE "rulefit"
       IN  FitForwarded("A", x, pyargs, [y |-> fw.y, list |-> list], fail, vi)

NextFilter ==
    \/ DoConstruct
    \/ FitNull

SpecFilter == Init /\ [][NextFilter]_vars


(***************************************************************************)
(* The claims.                                                             *)
(***************************************************************************)
PairwiseOps == {"two_var_intr_effects", "three_var_intr_effects"}
PairwiseRoutines == {"twovarint", "threevarint"}
Operations ==
    {"fit", "predict", "xval", "generate_intr_effects",
     "single_partial_dependency"} \cup PairwiseOps
ModelRoutines == {"rfpred", "rfxval", "interact"} \cup PairwiseRoutines

\* what the claim says R receives for the identifier v
Claimed(v) == IF v.t = "str" THEN v ELSE PyInt(v.v + 1)

\* C1: in two_var_intr_effects and three_var_intr_effects every identifier
\* that is not a string (the targets and each element of vars) reaches R as
\* identifier + 1 and every string unchanged, for any list of identifiers,
\* lists mixing integers and names included.
C1_IdentifiersReachR ==
    last.op \in PairwiseOps =>
        \A k \in 1..Len(calls) :
            calls[k].fn \in PairwiseRoutines =>
                LET n == Len(last.args)
                    vs == last.args[n]
                    sent == calls[k].args
                IN  /\ Len(sent) = n
                    /\ \A j \in 1..(n - 1) : sent[j] = Claimed(last.args[j])
                    /\ Len(sent[n].v) = Len(vs)
                    /\ \A j \in 1..Len(vs) : sent[n].v[j] = Claimed(vs[j])

\* C2: after every xval call xval_results holds exactly the keys the length
\* of that call's R result selects: the classification keys for length 5,
\* the regression keys otherwise; no key of an earlier call survives.
C2_XvalKeysByLength ==
    (last.op = "xval" /\ last.raised = "none") =>
        DOMAIN xval_results[last.self] =
            IF last.args[1].v = 5 THEN ClassificationKeys ELSE RegressionKeys

C2_Witness ==
    /\ last.op = "xval" /\ last.raised = "none"
    /\ last.args[1].v = 3
    /\ DOMAIN xval_results[last.self] = RegressionKeys

\* the value of the argument called name in the list rulefit was called with
Sent(name) ==
    LET l == calls[1].args
    IN  l[CHOOSE k \in 1..Len(l) : l[k].name = name].value

C4_InitErrorLogged ==
    (last.op = "__init__" /\ \E k \in 1..Len(calls) : ~calls[k].ok) =>
        /\ last.raised = "logged"
        /\ constructed[last.self]
        /\ logger[last.self]

\* C5: in every operation other than initialization an R error reaches the
\* caller as it was raised, the routine that raised it is the last one the
\* operation invokes (no retry), and data, variable_importances,
\* xval_results and interaction_effects keep their values.
C5_ErrorsPropagate ==
    [][(last'.op \in Operations /\ \E k \in 1..Len(calls') : ~calls'[k].ok) =>
          /\ last'.raised = "RRuntimeError"
          /\ \A k \in 1..Len(calls') : ~calls'[k].ok => k = Len(calls')
          /\ props' = props]_vars

C5_Witness ==
    /\ last.op = "fit" /\ last.raised = "RRuntimeError"
    /\ data[last.self] # Unset
    /\ xval_results[last.self] # Unset
    /\ interaction_effects[last.self] # Unset

\* C6: whenever two_var_intr_effects or three_var_intr_effects invokes
\* twovarint or threevarint, the R global null.models exists.
C6_NullModelsExist ==
    \A k \in 1..Len(calls) :
        calls[k].fn \in PairwiseRoutines => calls[k].null # Unset

C6_Witness ==
    \E j, k \in 1..Len(calls) :
        /\ j < k
        /\ calls[j].fn = "intnull" /\ calls[j].null = Unset
        /\ calls[k].fn = "twovarint"

\* C7 as claimed: each of the three interaction operations generates null
\* models only when none exist.
C7_LazyForAllThree ==
    \A k \in 1..Len(calls) : calls[k].fn = "intnull" => calls[k].null = Unset

\* C7 as amended: two_var_intr_effects and three_var_intr_effects generate
\* null models only when none exist and otherwise leave the existing ones in
\* place; generate_intr_effects generates them on every call.
C7_LazyPairwiseOnly ==
    /\ last.op \in PairwiseOps =>
           /\ \A k \in 1..Len(calls) :
                  calls[k].fn = "intnull" => calls[k].null = Unset
           /\ calls[1].null # Unset =>
                  /\ globalenv.null_models = calls[1].null
                  /\ \A k \in 1..Len(calls) : calls[k].fn # "intnull"
    /\ last.op = "generate_intr_effects" => calls[1].fn = "intnull"

C7_Witness ==
    /\ last.op \in PairwiseOps /\ last.raised = "none"
    /\ calls[1].null # Unset
    /\ globalenv.null_models = calls[1].null

\* C8: the fitted model is one per process: a fit by any instance whose
\* rulefit returns replaces it, nothing else does, and predict, xval and the
\* interaction operations of either instance run against it, that is
\* against the model of the most recent fit by any instance.
C8_OneSharedModel ==
    [][/\ \A k \in 1..Len(calls') :
              calls'[k].fn \in ModelRoutines => calls'[k].fit = globalenv.fit
       /\ (last'.op = "fit" /\ Len(calls') > 0 /\ calls'[1].ok) =>
              globalenv'.fit = [t |-> "model", by |-> last'.self,
                                x |-> last'.args.x.columns]
       /\ (last'.op = "fit" /\ Len(calls') > 0 /\ ~calls'[1].ok) =>
              globalenv'.fit = globalenv.fit
       /\ last'.op # "fit" => globalenv'.fit = globalenv.fit]_vars

C8_Witness ==
    /\ last.op = "predict" /\ last.self = "A" /\ last.raised = "none"
    /\ data["A"] # Unset
    /\ calls[1].fit # Unset
    /\ calls[1].fit.by = "B"

\* C9: generate_intr_effects returns the table of interaction effects, one
\* row per column of the fitted x, for either value of plot; the table
\* returned is the one stored in interaction_effects.
C9_GenerateReturnsTable ==
    (/\ last.op = "generate_intr_effects"
     /\ Len(calls) > 0
     /\ calls[Len(calls)].fn = "interact"
     /\ calls[Len(calls)].ok) =>
        /\ last.raised = "none"
        /\ last.returned = interaction_effects[last.self]
        /\ interaction_effects[last.self].index = data[last.self].x.columns

\* C10: after a successful fit(x, y), row k of variable_importances carries
\* the name of column var - 1 (0-based) of the x of that call, var being the
\* 1-based index varimp reported for the row.
C10_ImportanceNames ==
    (last.op = "fit" /\ last.raised = "none") =>
        LET vi == variable_importances[last.self]
            reported == globalenv.var_imp.var
        IN  /\ Len(vi) = Len(reported)
            /\ \A k \in 1..Len(vi) :
                   vi[k].var_name = last.args.x.columns[reported[k]]

C10_Witness ==
    /\ last.op = "fit" /\ last.raised = "none"
    /\ last.args.x.columns = <<"c", "a", "b">>
    /\ globalenv.var_imp.var = <<3, 2, 1>>
    /\ variable_importances[last.self][1].var_name = "b"

\* C11: single_partial_dependency hands singleplot each integer identifier of
\* vars as identifier + 1 and each column name unchanged, for any list of
\* identifiers: all integers, all names, or a mix of both.
C11_SingleIdentifiersReachR ==
    last.op = "single_partial_dependency" =>
        /\ Len(calls) = 1
        /\ calls[1].fn = "singleplot"
        /\ LET vs == last.args[1]
               sent == calls[1].args[1].v
           IN  /\ Len(sent) = Len(vs)
               /\ \A j \in 1..Len(vs) : sent[j] = Claimed(vs[j])

\* C12: the null models that two_var_intr_effects or three_var_intr_effects
\* hands to twovarint or threevarint were generated from the model that is
\* fitted at the time of the call, never from the model of an earlier fit.
C12_NullModelsOfCurrentFit ==
    last.op \in PairwiseOps =>
        \A k \in 1..Len(calls) :
            calls[k].fn \in PairwiseRoutines =>
                /\ calls[k].null # Unset
                /\ calls[k].null.fit = calls[k].fit

\* C13: after a successful fit(x, y) the data property holds exactly the x
\* and the y the caller passed, for every form of y, a single integer
\* column number included.
C13_DataHoldsArguments ==
    (last.op = "fit" /\ last.raised = "none") =>
        /\ data[last.self] # Unset
        /\ data[last.self].x = last.args.x
        /\ data[last.self].y = last.args.y

\* C14: in the R loop of fit that filters the argument list, for every set
\* of the 24 named arguments being NULL the loop never reads a position
\* past the end of the shrinking list (it runs to its end and rulefit is
\* called), and the list rulefit is called with holds exactly the non-NULL
\* arguments, in their original order and under their original names.
C14_FilterKeepsNonNull ==
    last.op = "fit" =>
        /\ Len(calls) >= 1
        /\ calls[1].fn = "rulefit"
        /\ Len(calls[1].list) = 24
        /\ calls[1].args =
               SelectSeq(calls[1].list, LAMBDA a : ~is_null(a.value))

C14_Witness ==
    /\ last.op = "fit" /\ last.raised = "none"
    /\ is_null(calls[1].list[23].value)
    /\ is_null(calls[1].list[24].value)
    /\ is_null(calls[1].list[4].value)
    /\ ~is_null(calls[1].list[3].value)
    /\ Len(calls[1].args) = 3

====
